---- MODULE Spec2Model ----
(***************************************************************************)
(* State-machine model of recognize_with_transkribus.py: the asyncio       *)
(* batch client that submits images to the Transkribus processing API,     *)
(* polls each job to a terminal status, writes the status payload, and     *)
(* keeps its bearer token fresh in a background task.                      *)
(*                                                                         *)
(* One action is one run of a coroutine between two suspension points      *)
(* (await of a network call, of a sleep, or of the semaphore): asyncio     *)
(* runs such a stretch without interleaving.                               *)
(***************************************************************************)
EXTENDS Integers, Sequences, FiniteSets, TLC

\* ------------------------------------------------------------------ bounds
\* Number of records in the input file.
MaxItems == 2
\* Largest --concurrency value tried (0 is tried too).
MaxConcurrency == 2
\* Largest number of non-terminal status responses the server gives a job.
MaxPolls == 2
\* Largest number of token renewal requests in a run.
MaxRenewals == 2
\* Largest expires_in (in clock ticks) the token endpoint returns.
MaxExpires == 3

\* ------------------------------------------------------- program constants
\* args.limit when --limit is not given (default=None).
NoLimit == -1

\* asyncio.sleep(5): the seconds of each sleep of process_image.
SleepSeconds == 5

\* Mutant: WAITING is missing from the list.
NonTerminal_NoWaiting == {"CREATED", "RUNNING"}

\* The statuses for which process_image keeps polling.
NonTerminal == {"CREATED", "WAITING", "RUNNING"}

\* ------------------------------------------------------------ environment
\* Records of the input file: <<image, output path>>.  Two of them name the
\* same output path as another one; "out1.json" may exist before the run.
Images == {"http://h/a.jpg", "http:/bad", "img.jpg", "gone.jpg"}
Outputs == {"out1.json", "out2.json"}
WorkItems ==
    { <<"http://h/a.jpg", "out1.json">>, <<"img.jpg", "out2.json">>,
      <<"http:/bad", "out2.json">>, <<"gone.jpg", "out1.json">> }

\* image.startswith("http")
StartsWithHttp(image) == image \in {"http://h/a.jpg", "http:/bad"}

\* validate_url: urlparse gives both a scheme and a netloc.
validate_url(url) == url \in {"http://h/a.jpg"}

\* Path(image).exists() for the local image files.
ImageExists(image) == image \in {"img.jpg"}

\* Statuses the status endpoint may report.
ServerStatuses == {"WAITING", "RUNNING", "FINISHED", "FAILED"}

\* Statuses after which the server reports nothing new for a job.
ServerFinal == {"FINISHED", "FAILED"}

\* expires_in values the token endpoint may return.
ExpiresChoices == (MaxExpires - 1) .. MaxExpires

\* A full credential of generation g.
Credential(g, e) == [access_token |-> g, refresh_token |-> g, expires_in |-> e]

\* Token endpoint answers that are no credential: an error document, and a
\* document that carries a refresh token but no access token.
ErrorDocument == [error |-> 1]
NoAccessDocument(g) == [refresh_token |-> g]

\* check_processing_status returns None on a connection failure.
None == [status |-> "None", n |-> 0]
StatusPayload(s, k) == [status |-> s, n |-> k]

\* Files: absent, a prior result, or what write_output wrote.
NoFile == [exists |-> FALSE, indent |-> 0, obj |-> None]
PriorFile == [exists |-> TRUE, indent |-> 0, obj |-> [status |-> "PRIOR", n |-> 0]]

\* No request of a pipeline is in flight.
NoRequest == [kind |-> "none", bearer |-> 0]

VARIABLES
    argv,             \* [concurrency, limit]: the parsed options
    input_file,       \* the non-blank records of the image-tasks file
    fs,               \* output path -> file
    mainpc,           \* where main() is
    revoke_result,    \* what revoke_api_token got from the logout request
    image_tasks,      \* main's list after the --limit slice
    counts,           \* the global counts dict
    no_credits,       \* the global no_credits flag
    token,            \* the global token dict
    semaphore,        \* value of the asyncio.Semaphore
    pc,               \* item index -> where its sem_coroutine/process_image is
    inflight,         \* item index -> the request it awaits
    status_response,  \* item index -> process_image's status_response
    submissions,      \* item index -> submission requests issued
    polls,            \* item index -> status requests issued
    slept,            \* item index -> seconds slept since its last request
    rpc,              \* where token_refresh_task is
    refresh_period,   \* token_refresh_task's refresh_period
    sleep_left,       \* ticks left of token_refresh_task's sleep
    token_age,        \* ticks since the held token was received
    renewals          \* renewal requests issued

vars ==
    << argv, input_file, fs, mainpc, revoke_result, image_tasks, counts,
       no_credits, token, semaphore, pc, inflight, status_response,
       submissions, polls, slept, rpc, refresh_period, sleep_left, token_age,
       renewals >>

mainVars == << mainpc, revoke_result, image_tasks >>
pipeVars ==
    << counts, no_credits, semaphore, pc, inflight, status_response,
       submissions, polls, slept, fs >>
refreshVars == << rpc, refresh_period, sleep_left, token_age, renewals >>
envVars == << argv, input_file >>

Items == 1 .. MaxItems
Tasks == 1 .. Len(image_tasks)

Terminal == {"processed", "failed", "skipped"}
Raised == {"AssertionError", "KeyError"}
InSemaphore == {"submit", "poll1", "sleep1", "sleep", "poll"}

Image(i) == image_tasks[i][1]
OutputPath(i) == image_tasks[i][2]

Min(a, b) == IF a < b THEN a ELSE b

\* ------------------------------------------------------------------- Init
Init ==
    /\ argv \in [concurrency : 0 .. MaxConcurrency,
                 limit : {NoLimit} \cup (0 .. MaxItems - 1)]
    /\ input_file \in [Items -> WorkItems]
    /\ fs \in [Outputs -> {NoFile, PriorFile}]
    /\ fs["out2.json"] = NoFile
    /\ mainpc = "start"
    /\ revoke_result = "none"
    /\ image_tasks = << >>
    /\ counts = [processed |-> 0, failed |-> 0, skipped |-> 0]
    /\ no_credits = FALSE
    /\ token = ErrorDocument
    /\ semaphore = 0
    /\ pc = [i \in Items |-> "none"]
    /\ inflight = [i \in Items |-> NoRequest]
    /\ status_response = [i \in Items |-> None]
    /\ submissions = [i \in Items |-> 0]
    /\ polls = [i \in Items |-> 0]
    /\ slept = [i \in Items |-> 0]
    /\ rpc = "none"
    /\ refresh_period = 0
    /\ sleep_left = 0
    /\ token_age = 0
    /\ renewals = 0

\* ------------------------------------------------------------ main, start
\* Mutant: the concurrency assert is missing.
ConcurrencyOK_NoAssert == TRUE

\* assert args.concurrency > 0
ConcurrencyOK == argv.concurrency > 0

\* if args.limit is not None: assert args.limit > 0
LimitOK == argv.limit # NoLimit => argv.limit > 0

\* image_tasks[: args.limit] when a limit is given, else the whole list.
ReadTasks ==
    IF argv.limit # NoLimit
    THEN SubSeq(input_file, 1, Min(argv.limit, Len(input_file)))
    ELSE input_file

\* main() from the option checks to the token request: a failed assert ends
\* the process; otherwise the tasks are read, the globals are initialised and
\* get_api_token's request is sent.
MainValidate ==
    /\ mainpc = "start"
    /\ IF ConcurrencyOK /\ LimitOK
       THEN /\ image_tasks' = ReadTasks
            /\ counts' = [processed |-> 0, failed |-> 0, skipped |-> 0]
            /\ no_credits' = FALSE
            /\ mainpc' = "auth"
       ELSE /\ mainpc' = "config_error"
            /\ UNCHANGED << image_tasks, counts, no_credits >>
    /\ UNCHANGED << envVars, fs, revoke_result, token, semaphore, pc, inflight,
                    status_response, submissions, polls, slept, refreshVars >>

\* assert "access_token" in token
HasAccessToken(t) == "access_token" \in DOMAIN t

\* main() on the answer to get_api_token: without an access token the assert
\* ends the process; with one, the refresh task is created and gather wraps
\* every task in sem_coroutine on Semaphore(args.concurrency).
AuthResponse ==
    /\ mainpc = "auth"
    /\ \E r \in {Credential(1, e) : e \in ExpiresChoices} \cup {ErrorDocument} :
          /\ token' = r
          /\ IF HasAccessToken(r)
             THEN /\ mainpc' = "running"
                  /\ rpc' = "created"
                  /\ semaphore' = argv.concurrency
                  /\ pc' = [i \in Items |-> IF i \in Tasks THEN "waiting" ELSE "none"]
             ELSE /\ mainpc' = "auth_failed"
                  /\ UNCHANGED << rpc, semaphore, pc >>
    /\ token_age' = 0
    /\ UNCHANGED << envVars, fs, revoke_result, image_tasks, counts,
                    no_credits, inflight, status_response, submissions, polls,
                    slept, refresh_period, sleep_left, renewals >>

\* get_api_token's post raises ClientConnectorError: nothing catches it.
AuthConnectionError ==
    /\ mainpc = "auth"
    /\ mainpc' = "auth_failed"
    /\ UNCHANGED << envVars, revoke_result, image_tasks, pipeVars, token,
                    refreshVars >>

\* -------------------------------------------------------------- pipelines
\* Mutant: acquire never waits.
SemaphoreFree_NoWait == TRUE

\* Semaphore.acquire goes through only while the value is positive.
SemaphoreFree == semaphore > 0

\* Mutant: process_image does not look at no_credits.
CreditsExhausted_Ignored == FALSE

\* if no_credits:
CreditsExhausted == no_credits

\* Mutant: process_image does not look for the output file.
OutputExists_Ignored(i) == FALSE

\* output_path.exists()
OutputExists(i) == fs[OutputPath(i)].exists

\* The two asserts of submit_image_for_processing on the image argument.
SourceOK(image) ==
    IF StartsWithHttp(image) THEN validate_url(image) ELSE ImageExists(image)

\* Mutant: the header is built from the token main() first got.
Headers_FirstToken == Credential(1, MaxExpires).access_token

\* headers = {"Authorization": f"Bearer {token['access_token']}"}
Headers == token.access_token

\* json.dump(status_response, _fh, indent=2) into a file opened with "w".
write_output(resp) == [exists |-> TRUE, indent |-> 2, obj |-> resp]

\* Mutant: the counter is set, not added to.
Increment_Overwrite(kind) == [counts EXCEPT ![kind] = 1]

\* One counter of the global counts dict goes up by one.
Increment(kind) == [counts EXCEPT ![kind] = @ + 1]

\* process_image returns (or raises) inside "async with semaphore": the
\* pipeline ends in disposition d and the slot is given back.
Leave(i, d) ==
    /\ pc' = [pc EXCEPT ![i] = d]
    /\ inflight' = [inflight EXCEPT ![i] = NoRequest]
    /\ semaphore' = semaphore + 1

\* check_processing_status up to its await: builds the header from the global
\* token (KeyError when it has no access_token) and sends the status request.
SendStatusRequest(i) ==
    IF HasAccessToken(token)
    THEN /\ pc' = [pc EXCEPT ![i] = IF polls[i] = 0 THEN "poll1" ELSE "poll"]
         /\ inflight' = [inflight EXCEPT ![i] = [kind |-> "status", bearer |-> Headers]]
         /\ polls' = [polls EXCEPT ![i] = @ + 1]
         /\ UNCHANGED semaphore
    ELSE /\ Leave(i, "KeyError")
         /\ UNCHANGED polls

\* sem_coroutine(i) gets the semaphore and runs process_image up to its first
\* await: the no_credits check, the output check, the asserts on the image,
\* the header and the submission request.  The semaphore wakes its waiters
\* in the order gather started them.
Start(i) ==
    /\ mainpc = "running"
    /\ rpc # "created"
    /\ pc[i] = "waiting"
    /\ \A j \in Tasks : j < i => pc[j] # "waiting"
    /\ SemaphoreFree
    /\ IF CreditsExhausted
       THEN /\ counts' = Increment("failed")
            /\ pc' = [pc EXCEPT ![i] = "failed"]
            /\ UNCHANGED << semaphore, inflight, submissions >>
       ELSE IF OutputExists(i)
       THEN /\ counts' = Increment("skipped")
            /\ pc' = [pc EXCEPT ![i] = "skipped"]
            /\ UNCHANGED << semaphore, inflight, submissions >>
       ELSE IF ~SourceOK(Image(i))
       THEN /\ pc' = [pc EXCEPT ![i] = "AssertionError"]
            /\ UNCHANGED << counts, semaphore, inflight, submissions >>
       ELSE IF ~HasAccessToken(token)
       THEN /\ pc' = [pc EXCEPT ![i] = "KeyError"]
            /\ UNCHANGED << counts, semaphore, inflight, submissions >>
       ELSE /\ pc' = [pc EXCEPT ![i] = "submit"]
            /\ inflight' = [inflight EXCEPT ![i] = [kind |-> "submit", bearer |-> Headers]]
            /\ submissions' = [submissions EXCEPT ![i] = @ + 1]
            /\ semaphore' = semaphore - 1
            /\ UNCHANGED counts
    /\ UNCHANGED << envVars, mainVars, fs, no_credits, token, status_response,
                    polls, slept, refreshVars >>

\* Statuses the processes endpoint may answer a submission with.
SubmitStatuses == {200, 429, 500}

\* Mutant: every status other than 200 is taken as "out of credits".
OutOfCredits_AnyFailure(status) == status # 200

\* elif response.status == 429:
OutOfCredits(status) == status = 429

\* The answer to the submission request: 200 gives the process id and
\* process_image goes on to its first status request; 429 sets no_credits;
\* 429 and any other status return None, counted as failed.
SubmitAnswered(i, status) ==
    /\ mainpc = "running"
    /\ pc[i] = "submit"
    /\ IF status = 200
       THEN /\ SendStatusRequest(i)
            /\ UNCHANGED << counts, no_credits >>
       ELSE /\ no_credits' = (IF OutOfCredits(status) THEN TRUE ELSE no_credits)
            /\ counts' = Increment("failed")
            /\ Leave(i, "failed")
            /\ UNCHANGED polls
    /\ UNCHANGED << envVars, mainVars, fs, token, status_response, submissions,
                    slept, refreshVars >>

SubmitResponse(i) == \E status \in SubmitStatuses : SubmitAnswered(i, status)

\* The submission's post raises ClientConnectorError: logged, None returned.
SubmitConnectionError(i) ==
    /\ mainpc = "running"
    /\ pc[i] = "submit"
    /\ counts' = Increment("failed")
    /\ Leave(i, "failed")
    /\ UNCHANGED << envVars, mainVars, fs, no_credits, token, status_response,
                    submissions, polls, slept, refreshVars >>

\* Mutant: the result is written whatever check_processing_status returned.
GotResponse_Unchecked(resp) == TRUE

\* if status_response is not None:
GotResponse(resp) == resp # None

\* Mutant: the file is opened for writing before the answer is looked at, so
\* a failed pipeline leaves a file too.
LoopOrFinish_WriteFirst(i, resp) ==
    IF resp # None /\ resp.status \in NonTerminal
    THEN /\ pc' = [pc EXCEPT ![i] = "sleep"]
         /\ inflight' = [inflight EXCEPT ![i] = NoRequest]
         /\ UNCHANGED << counts, fs, semaphore >>
    ELSE /\ fs' = [fs EXCEPT ![OutputPath(i)] = write_output(resp)]
         /\ counts' = Increment(IF resp # None THEN "processed" ELSE "failed")
         /\ Leave(i, IF resp # None THEN "processed" ELSE "failed")

\* process_image after a status response or a sleep, at the test of its
\* while loop: sleep again on a non-terminal status, else write the payload
\* and count processed, or count failed when the response is None.
LoopOrFinish(i, resp) ==
    IF resp # None /\ resp.status \in NonTerminal
    THEN /\ pc' = [pc EXCEPT ![i] = "sleep"]
         /\ inflight' = [inflight EXCEPT ![i] = NoRequest]
         /\ UNCHANGED << counts, fs, semaphore >>
    ELSE IF GotResponse(resp)
    THEN /\ fs' = [fs EXCEPT ![OutputPath(i)] = write_output(resp)]
         /\ counts' = Increment("processed")
         /\ Leave(i, "processed")
    ELSE /\ counts' = Increment("failed")
         /\ Leave(i, "failed")
         /\ UNCHANGED fs

\* What the status endpoint may answer to the request in flight: any status,
\* non-terminal ones for the first MaxPolls requests only.
StatusAnswers(i) ==
    { StatusPayload(s, polls[i]) :
        s \in { t \in ServerStatuses : t \in ServerFinal \/ polls[i] <= MaxPolls } }

\* check_processing_status returns resp.  After the first request
\* process_image sleeps before it looks at the answer; after a later one it
\* is at the loop test at once.  No sleep has followed this request yet.
StatusReturn(i, resp) ==
    /\ status_response' = [status_response EXCEPT ![i] = resp]
    /\ slept' = [slept EXCEPT ![i] = 0]
    /\ IF pc[i] = "poll1"
       THEN /\ pc' = [pc EXCEPT ![i] = "sleep1"]
            /\ inflight' = [inflight EXCEPT ![i] = NoRequest]
            /\ UNCHANGED << counts, fs, semaphore >>
       ELSE LoopOrFinish(i, resp)
    /\ UNCHANGED << envVars, mainVars, no_credits, token, submissions, polls,
                    refreshVars >>

StatusResponse(i) ==
    /\ mainpc = "running"
    /\ pc[i] \in {"poll1", "poll"}
    /\ \E resp \in StatusAnswers(i) : StatusReturn(i, resp)

\* The status get raises ClientConnectorError: logged, None returned.
StatusConnectionError(i) ==
    /\ mainpc = "running"
    /\ pc[i] \in {"poll1", "poll"}
    /\ StatusReturn(i, None)

\* asyncio.sleep(5) is over: after the first sleep comes the loop test, after
\* a sleep in the loop the next status request.
SleepDone(i) ==
    /\ mainpc = "running"
    /\ pc[i] \in {"sleep1", "sleep"}
    /\ slept' = [slept EXCEPT ![i] = @ + SleepSeconds]
    /\ IF pc[i] = "sleep1"
       THEN /\ LoopOrFinish(i, status_response[i])
            /\ UNCHANGED polls
       ELSE /\ SendStatusRequest(i)
            /\ UNCHANGED << counts, fs >>
    /\ UNCHANGED << envVars, mainVars, no_credits, token, status_response,
                    submissions, refreshVars >>

\* -------------------------------------------------------------- main, end
\* Mutant: gather returns as soon as one task has returned.
AllReturned_FirstCompleted == \E i \in Tasks : pc[i] \in Terminal

\* asyncio.gather over the sem_coroutines: every task has returned.
AllReturned == \A i \in Tasks : pc[i] \in Terminal

\* gather re-raises the first exception of a task in main(); nothing catches
\* it, so run_until_complete ends and the event loop runs nothing more.
MainGatherRaise ==
    /\ mainpc = "running"
    /\ \E i \in Tasks : pc[i] \in Raised
    /\ mainpc' = "crashed"
    /\ UNCHANGED << envVars, revoke_result, image_tasks, pipeVars, token,
                    refreshVars >>

\* gather returns once every task has returned; main() reads
\* token["refresh_token"] (KeyError when absent) and sends the logout request.
MainGatherDone ==
    /\ mainpc = "running"
    /\ rpc # "created"
    /\ AllReturned
    /\ mainpc' = (IF "refresh_token" \in DOMAIN token THEN "revoking" ELSE "crashed")
    /\ UNCHANGED << envVars, revoke_result, image_tasks, pipeVars, token,
                    refreshVars >>

\* What revoke_api_token makes of the logout answer: 204 passes in silence,
\* any other status is logged.
RevokeOutcome(status) == IF status = 204 THEN "revoked" ELSE "logged_status"

\* Mutant: a logout that did not succeed raises out of main().
AfterRevoke_RaiseOnFailure(result) ==
    IF result = "revoked" THEN "done" ELSE "crashed"

\* main() after await revoke_api_token(...): it logs the counts and returns,
\* whatever the logout gave.
AfterRevoke(result) == "done"

\* The logout request is answered: revoke_api_token returns and main() logs
\* the counts.
RevokeResponse ==
    /\ mainpc = "revoking"
    /\ \E status \in {204, 500} :
          /\ revoke_result' = RevokeOutcome(status)
          /\ mainpc' = AfterRevoke(RevokeOutcome(status))
    /\ UNCHANGED << envVars, image_tasks, pipeVars, token, refreshVars >>

\* The logout's post raises ClientConnectorError: revoke_api_token logs it
\* and returns.
RevokeConnectionError ==
    /\ mainpc = "revoking"
    /\ revoke_result' = "logged_connection_error"
    /\ mainpc' = AfterRevoke("logged_connection_error")
    /\ UNCHANGED << envVars, image_tasks, pipeVars, token, refreshVars >>

\* ------------------------------------------------------ token_refresh_task
\* int(token["expires_in"] * 0.9)
RefreshPeriod(expires_in) == (expires_in * 9) \div 10

LoopRunning == mainpc \in {"running", "revoking"}

\* The task's first run: refresh_period is computed from the token main()
\* got, and the first sleep starts.  The task was created before gather's
\* tasks, so it runs before them.
TokenRefreshStart ==
    /\ mainpc = "running"
    /\ rpc = "created"
    /\ refresh_period' = RefreshPeriod(token.expires_in)
    /\ sleep_left' = RefreshPeriod(token.expires_in)
    /\ rpc' = "sleeping"
    /\ UNCHANGED << envVars, mainVars, pipeVars, token, token_age, renewals >>

\* A task or main() can run without waiting for the network or a timer: the
\* refresh task was just created, a pipeline can take the semaphore, or
\* gather can return or raise.
TaskReady ==
    \/ rpc = "created"
    \/ /\ mainpc = "running"
       /\ \/ \E i \in Tasks :
                /\ pc[i] = "waiting"
                /\ \A j \in Tasks : j < i => pc[j] # "waiting"
                /\ SemaphoreFree
          \/ \E i \in Tasks : pc[i] \in Raised
          \/ AllReturned

\* One unit of time passes.  The event loop runs what is ready and wakes a
\* due sleep before more time passes.  The age of the held token is counted
\* up to its expires_in, where it has expired.
Tick ==
    /\ LoopRunning
    /\ ~TaskReady
    /\ rpc \in {"sleeping", "requesting"}
    /\ rpc = "sleeping" => sleep_left > 0
    /\ token_age' = Min(token_age + 1, token.expires_in)
    /\ sleep_left' = (IF rpc = "sleeping" THEN sleep_left - 1 ELSE sleep_left)
    /\ UNCHANGED << envVars, mainVars, pipeVars, token, rpc, refresh_period,
                    renewals >>

\* asyncio.sleep(refresh_period) is over: refresh_api_token sends the
\* renewal request with the held refresh token.
RefreshWake ==
    /\ LoopRunning
    /\ rpc = "sleeping"
    /\ sleep_left = 0
    /\ renewals < MaxRenewals
    /\ rpc' = "requesting"
    /\ renewals' = renewals + 1
    /\ UNCHANGED << envVars, mainVars, pipeVars, token, refresh_period,
                    sleep_left, token_age >>

\* What the token endpoint may answer to a renewal request.
RenewalAnswers ==
    {Credential(renewals + 1, e) : e \in ExpiresChoices}
        \cup {ErrorDocument, NoAccessDocument(renewals + 1)}

\* token = await refresh_api_token(session), then the assert: without an
\* access token the task ends with AssertionError (its locals and its clock
\* go with it), else it sleeps refresh_period again.
RefreshResponse ==
    /\ LoopRunning
    /\ rpc = "requesting"
    /\ \E r \in RenewalAnswers :
          /\ token' = r
          /\ IF HasAccessToken(r)
             THEN /\ rpc' = "sleeping"
                  /\ sleep_left' = refresh_period
                  /\ UNCHANGED refresh_period
             ELSE /\ rpc' = "AssertionError"
                  /\ sleep_left' = 0
                  /\ refresh_period' = 0
    /\ token_age' = 0
    /\ UNCHANGED << envVars, mainVars, pipeVars, renewals >>

\* refresh_api_token's post raises ClientConnectorError: the task ends and
\* the token stays as it was.
RefreshConnectionError ==
    /\ LoopRunning
    /\ rpc = "requesting"
    /\ rpc' = "ClientConnectorError"
    /\ sleep_left' = 0
    /\ refresh_period' = 0
    /\ token_age' = 0
    /\ UNCHANGED << envVars, mainVars, pipeVars, token, renewals >>

\* ------------------------------------------------------------------- Spec
Next ==
    \/ MainValidate
    \/ AuthResponse
    \/ AuthConnectionError
    \/ TokenRefreshStart
    \/ \E i \in Tasks : Start(i)
    \/ \E i \in Tasks : SubmitResponse(i)
    \/ \E i \in Tasks : SubmitConnectionError(i)
    \/ \E i \in Tasks : StatusResponse(i)
    \/ \E i \in Tasks : StatusConnectionError(i)
    \/ \E i \in Tasks : SleepDone(i)
    \/ MainGatherRaise
    \/ MainGatherDone
    \/ RevokeResponse
    \/ RevokeConnectionError
    \/ Tick
    \/ RefreshWake
    \/ RefreshResponse
    \/ RefreshConnectionError

Spec == Init /\ [][Next]_vars

\* The steps of item i's sem_coroutine.
Pipeline(i) ==
    \/ Start(i)
    \/ SubmitResponse(i)
    \/ SubmitConnectionError(i)
    \/ StatusResponse(i)
    \/ StatusConnectionError(i)
    \/ SleepDone(i)

\* The steps of main().
Main ==
    \/ MainValidate
    \/ AuthResponse
    \/ AuthConnectionError
    \/ MainGatherRaise
    \/ MainGatherDone
    \/ RevokeResponse
    \/ RevokeConnectionError

\* The steps of token_refresh_task.
RefreshTask ==
    \/ TokenRefreshStart
    \/ RefreshWake
    \/ RefreshResponse
    \/ RefreshConnectionError

\* The event loop runs every task that can run, every request is answered
\* (by a response or a connection failure) and every sleep ends.
FairSpec ==
    /\ Spec
    /\ WF_vars(Main)
    /\ WF_vars(RefreshTask)
    /\ WF_vars(Tick)
    /\ \A i \in Items : WF_vars(Pipeline(i))

\* ================================================================= claims
Sum(c) == c.processed + c.failed + c.skipped
Active == {i \in Tasks : pc[i] \in InSemaphore}
Started == mainpc \in {"running", "revoking", "done", "crashed"}
\* The non-terminal set as the specification words it.
PollingStatuses == {"CREATED", "WAITING", "RUNNING"}

\* C1: when a run ends, normally or by an exception out of main(), processed
\* + failed + skipped equals the number of input items consumed.
C1_CountsSumToItems ==
    mainpc \in {"done", "crashed"} => Sum(counts) = Len(image_tasks)

\* C2: at most args.concurrency pipelines are between the start of their
\* submit step and their disposition, and the semaphore's value is the
\* number of slots not held by such a pipeline.
C2_ConcurrencyBound ==
    Started =>
        /\ Cardinality(Active) <= argv.concurrency
        /\ semaphore = argv.concurrency - Cardinality(Active)

\* C2 witness: with one slot, the first pipeline submitted and gave the slot
\* back, and the second one holds it.
C2_Witness ==
    /\ argv.concurrency = 1
    /\ Len(image_tasks) = 2
    /\ submissions[1] = 1
    /\ pc[1] \in Terminal
    /\ pc[2] \in InSemaphore

\* C3: once a submission was answered 429, no step issues a submission
\* request, every pipeline that starts is counted failed, and a run that
\* completes has no pipeline left waiting; with one slot and two items, a 429
\* to the first submission ends as processed 0, failed 2, skipped 0 with one
\* submission request.
C3_NoSubmissionAfter429 ==
    [][ /\ no_credits => submissions' = submissions
        /\ \A i \in Tasks :
              (no_credits /\ pc[i] = "waiting" /\ pc'[i] # "waiting") =>
                  /\ pc'[i] = "failed"
                  /\ counts' = Increment("failed")
        /\ (no_credits' /\ mainpc' \in {"revoking", "done"}) =>
              \A i \in Tasks : submissions'[i] = 0 => pc'[i] \in {"failed", "skipped"}
        /\ ( /\ mainpc' = "done"
             /\ argv.concurrency = 1
             /\ Len(image_tasks) = 2
             /\ no_credits'
             /\ submissions'[2] = 0 ) =>
              /\ counts' = [processed |-> 0, failed |-> 2, skipped |-> 0]
              /\ submissions'[1] = 1
      ]_vars

\* C3 witness: the two-item run with one slot has ended after a 429 to the
\* first submission.
C3_Witness ==
    /\ mainpc = "done"
    /\ argv.concurrency = 1
    /\ Len(image_tasks) = 2
    /\ no_credits
    /\ submissions[1] = 1
    /\ submissions[2] = 0
    /\ counts.failed = 2

\* C4 as stated: an item whose destination file existed before the run
\* issues no submission request and, once disposed, is counted as skipped.
\* (A prior file is never replaced, so it names the files that existed.)
C4_PriorOutputSkipped ==
    \A i \in Tasks :
        fs[OutputPath(i)] = PriorFile =>
            /\ submissions[i] = 0
            /\ pc[i] \in {"none", "waiting", "skipped"}

\* C4 as amended: such an item issues no submission request, is never
\* processed and its file stays as it was; when its pipeline runs it is
\* counted as skipped, unless no_credits is already set, and then as failed.
C4_PriorOutputNeverSubmitted ==
    [][ \A i \in Tasks :
          fs[OutputPath(i)] = PriorFile =>
              /\ fs'[OutputPath(i)] = PriorFile
              /\ submissions'[i] = 0
              /\ pc'[i] \in {"none", "waiting", "skipped", "failed"}
              /\ (pc[i] = "waiting" /\ pc'[i] # "waiting") =>
                    /\ pc'[i] = (IF no_credits THEN "failed" ELSE "skipped")
                    /\ counts' = Increment(pc'[i])
              /\ pc[i] \in {"skipped", "failed"} => pc'[i] = pc[i]
      ]_vars

\* C4 witness: an item with a prior output file was counted as failed after
\* a 429, and the file is still the prior one.
C4_Witness ==
    \E i \in Tasks :
        /\ fs[OutputPath(i)] = PriorFile
        /\ pc[i] = "failed"
        /\ no_credits
        /\ counts.skipped = 0

\* C5: a status request after the first is issued only when the last status
\* returned is CREATED, WAITING or RUNNING; a pipeline becomes processed in
\* the step that writes the last response it received, the answer to its
\* last status request, whose status is none of those three.
C5_PollUntilTerminal ==
    [][ \A i \in Tasks :
          /\ (polls'[i] # polls[i] /\ polls[i] >= 1) =>
                /\ polls'[i] = polls[i] + 1
                /\ status_response[i] # None
                /\ status_response[i].status \in PollingStatuses
                /\ status_response[i].n = polls[i]
          /\ (pc'[i] = "processed" /\ pc[i] # "processed") =>
                /\ fs'[OutputPath(i)] = [exists |-> TRUE, indent |-> 2,
                                         obj |-> status_response'[i]]
                /\ status_response'[i] # None
                /\ status_response'[i].status \notin PollingStatuses
                /\ status_response'[i].n = polls'[i]
                /\ polls'[i] = polls[i]
                /\ counts' = Increment("processed")
          /\ pc[i] = "processed" => (pc'[i] = "processed" /\ polls'[i] = polls[i])
      ]_vars

\* C5 witness: RUNNING, RUNNING, FINISHED: three status requests, and the
\* file holds the third response.
C5_Witness ==
    \E i \in Tasks :
        /\ pc[i] = "processed"
        /\ polls[i] = 3
        /\ fs[OutputPath(i)] = [exists |-> TRUE, indent |-> 2,
                                obj |-> StatusPayload("FINISHED", 3)]
        /\ counts.processed = 1

\* C6: every renewal request is issued before the held token's expiry, at
\* 90% of that token's lifetime.
C6_RenewalBeforeExpiry ==
    [][ (rpc = "sleeping" /\ rpc' = "requesting") =>
          /\ token_age < token.expires_in
          /\ token_age = RefreshPeriod(token.expires_in)
      ]_vars

\* C7: a request that a step puts in flight carries the access token of the
\* global token at that step; the global token is a whole credential, the
\* one of the latest renewal answered.
C7_RequestsCarryCurrentToken ==
    [][ /\ \A i \in Tasks :
              (inflight'[i] # inflight[i] /\ inflight'[i].kind # "none") =>
                  /\ HasAccessToken(token)
                  /\ token' = token
                  /\ inflight'[i].bearer = token.access_token
        /\ HasAccessToken(token') =>
              /\ token'.refresh_token = token'.access_token
              /\ rpc' = "sleeping" => token'.access_token = renewals' + 1
              /\ rpc' = "requesting" => token'.access_token = renewals'
      ]_vars

\* C7 witness: a pipeline started after a renewal and its submission carries
\* the renewed token.
C7_Witness ==
    \E i \in Tasks :
        /\ inflight[i] = [kind |-> "submit", bearer |-> 2]
        /\ token.access_token = 2

\* C8: after a renewal whose answer has no access token, no submission or
\* status request is issued and the run does not complete normally.
C8_FailedRenewalEndsRun ==
    [][ rpc = "AssertionError" =>
          /\ submissions' = submissions
          /\ polls' = polls
          /\ mainpc' # "done"
      ]_vars

\* C9: an item whose image argument fails its local check (a malformed URL,
\* a missing file) is counted as failed, and no pipeline's error ends the
\* batch.
C9_ItemErrorsCounted ==
    /\ \A i \in Tasks :
          (~SourceOK(Image(i)) /\ pc[i] \notin {"none", "waiting", "skipped"}) =>
              pc[i] = "failed"
    /\ mainpc = "crashed" => \A i \in Tasks : pc[i] # "AssertionError"

\* No pipeline exists, no request was sent, no counter moved and the refresh
\* task was never created.
NoWork ==
    /\ \A i \in Items :
          /\ pc[i] = "none"
          /\ inflight[i] = NoRequest
          /\ submissions[i] = 0
          /\ polls[i] = 0
    /\ Sum(counts) = 0
    /\ rpc = "none"
    /\ renewals = 0

\* C10: with a concurrency <= 0, or when get_api_token gives no access token,
\* no work is ever started.
C10_NoWorkOnStartupError ==
    (argv.concurrency <= 0 \/ mainpc \in {"config_error", "auth_failed"}) => NoWork

\* C10 witness: the token request was answered without an access token.
C10_Witness ==
    /\ mainpc = "auth_failed"
    /\ ~HasAccessToken(token)
    /\ argv.concurrency > 0

\* C11: the logout request is sent, and the counts are read for the summary,
\* only when every pipeline of the run is processed, failed or skipped.
C11_ShutdownAfterAllTerminal ==
    (mainpc \in {"revoking", "done"} \/ revoke_result # "none") =>
        \A i \in Tasks : pc[i] \in Terminal

\* C11 witness: the logout request is in flight after two pipelines that
\* held a slot at the same time were both processed.
C11_Witness ==
    /\ mainpc = "revoking"
    /\ argv.concurrency = 2
    /\ Len(image_tasks) = 2
    /\ \A i \in Tasks : pc[i] = "processed" /\ polls[i] = 2

\* C12: whatever the logout request gives (204, another status, a connection
\* failure), main() goes on to the summary and ends normally, and the
\* counters are what they were when the request was sent.
C12_RevocationNeverBlocksExit ==
    [][ /\ revoke_result' # "none" => mainpc' = "done"
        /\ (mainpc = "revoking" /\ mainpc' # "revoking") =>
              /\ mainpc' = "done"
              /\ revoke_result' \in
                    {"revoked", "logged_status", "logged_connection_error"}
        /\ mainpc = "revoking" => counts' = counts
      ]_vars

\* C12 witness: the run ended normally with a processed item although the
\* logout met a connection failure.
C12_Witness ==
    /\ mainpc = "done"
    /\ revoke_result = "logged_connection_error"
    /\ counts.processed = 1

\* C13: every status request is issued after a sleep of SleepSeconds: the
\* first one that long after the submission was answered, each later one
\* that long after the answer to the one before.
C13_PollDelays ==
    [][ \A i \in Tasks : polls'[i] # polls[i] => slept'[i] = SleepSeconds ]_vars

\* C14: no_credits is FALSE when the run starts, never goes back to FALSE,
\* and goes to TRUE only in a step that takes a 429 answer to a submission;
\* any other failed submission leaves it as it is.
C14_NoCreditsMonotonic ==
    [][ /\ mainpc' \in {"start", "config_error", "auth", "auth_failed"} =>
              ~no_credits'
        /\ no_credits => no_credits'
        /\ (~no_credits /\ no_credits') => \E i \in Tasks : SubmitAnswered(i, 429)
        /\ \A i \in Tasks :
              \/ SubmitConnectionError(i)
              \/ \E status \in SubmitStatuses \ {429} : SubmitAnswered(i, status)
              => no_credits' = no_credits
      ]_vars

\* C14 witness: the flag is set and a pipeline that was submitted before the
\* 429 has been processed since.
C14_Witness ==
    /\ no_credits
    /\ \E i \in Tasks : pc[i] = "processed"
    /\ counts.failed = 1

\* Each counter is the number of pipelines in that disposition, and no
\* pipeline has issued more than one submission request.
CountersMatch ==
    /\ \A k \in Terminal : counts[k] = Cardinality({i \in Tasks : pc[i] = k})
    /\ \A i \in Items : submissions[i] <= 1

\* C15: in every state each counter is the number of pipelines in that disposition, a
\* pipeline keeps its disposition, and no pipeline issues more than one
\* submission request.
C15_CountersMatchDispositions ==
    /\ CountersMatch
    /\ [][ /\ CountersMatch'
           /\ \A i \in Tasks : pc[i] \in Terminal => pc'[i] = pc[i]
         ]_vars

\* C15 witness: two pipelines that held a slot at the same time were both
\* counted as failed after their status requests.
C15_Witness ==
    /\ argv.concurrency = 2
    /\ counts.failed = 2
    /\ \A i \in Tasks : polls[i] >= 1 /\ submissions[i] = 1

\* C16: of the pipelines whose items name one output path, at most one
\* issues a submission request and at most one writes the file, whatever the
\* input list and the concurrency.
C16_OneWriterPerDestination ==
    \A d \in Outputs :
        LET P == {i \in Tasks : OutputPath(i) = d}
        IN  /\ Cardinality({i \in P : submissions[i] > 0}) <= 1
            /\ Cardinality({i \in P : pc[i] = "processed"}) <= 1

\* C17: a connection failure on a status request is the last thing the
\* pipeline hears of its job: its next step counts it as failed (at once in
\* the loop, after the sleep that follows the first request), no further
\* status request is issued, no file is written, and the no_credits flag and
\* the other pipelines stay as they are.
C17_PollFailureEndsPipeline ==
    [][ \A i \in Tasks :
          /\ StatusConnectionError(i) =>
                /\ pc'[i] = (IF pc[i] = "poll1" THEN "sleep1" ELSE "failed")
                /\ counts' = (IF pc[i] = "poll1" THEN counts
                              ELSE [counts EXCEPT !.failed = @ + 1])
                /\ polls' = polls
                /\ fs' = fs
                /\ no_credits' = no_credits
                /\ \A j \in Tasks \ {i} : pc'[j] = pc[j]
          /\ (pc[i] = "sleep1" /\ status_response[i] = None /\ pc'[i] # "sleep1") =>
                /\ pc'[i] = "failed"
                /\ counts' = [counts EXCEPT !.failed = @ + 1]
                /\ polls' = polls
                /\ fs' = fs
                /\ no_credits' = no_credits
                /\ \A j \in Tasks \ {i} : pc'[j] = pc[j]
          /\ pc[i] = "failed" => (pc'[i] = "failed" /\ polls'[i] = polls[i])
      ]_vars

\* C17 witness: the second status request of a job met a connection failure;
\* the pipeline is failed, its file is absent and another pipeline is still
\* polling.
C17_Witness ==
    \E i \in Tasks :
        /\ pc[i] = "failed"
        /\ polls[i] = 2
        /\ status_response[i] = None
        /\ fs[OutputPath(i)] = NoFile
        /\ counts.failed = 1
        /\ \E j \in Tasks : pc[j] = "poll"

\* C18: from the step that sends the logout request on, no renewal request
\* is issued and the global token is not replaced.
C18_NoRenewalAfterRevocation ==
    [][ (mainpc \in {"revoking", "done"}) =>
          /\ renewals' = renewals
          /\ token' = token
      ]_vars

\* C19: once gather has started the pipelines, every one of them reaches a
\* disposition and main() gets to its summary.
C19_EventuallySummary ==
    (mainpc = "running") ~>
        (mainpc = "done" /\ \A i \in Tasks : pc[i] \in Terminal)

\* C20: a step of a pipeline changes the files only when it makes the
\* pipeline processed, and then it writes the pipeline's own output path
\* once, with the answer to its last status request; a pipeline that ends in
\* another disposition has changed no file, and a disposition is final.
C20_FileWrittenIffProcessed ==
    [][ /\ fs' # fs => \E i \in Tasks : pc[i] # "processed" /\ pc'[i] = "processed"
        /\ \A i \in Tasks :
              /\ (pc'[i] # pc[i] /\ pc'[i] # "processed") => fs' = fs
              /\ (pc'[i] = "processed" /\ pc[i] # "processed") =>
                    /\ fs' = [fs EXCEPT ![OutputPath(i)] =
                                [exists |-> TRUE, indent |-> 2,
                                 obj |-> status_response'[i]]]
                    /\ status_response'[i].n = polls'[i]
              /\ pc[i] \in Terminal => pc'[i] = pc[i]
      ]_vars

\* C20 witness: one pipeline failed at its status request and left its path
\* without a file, another was processed and its file holds its last answer.
C20_Witness ==
    \E i, j \in Tasks :
        /\ pc[i] = "failed"
        /\ polls[i] = 1
        /\ fs[OutputPath(i)] = NoFile
        /\ pc[j] = "processed"
        /\ fs[OutputPath(j)] = [exists |-> TRUE, indent |-> 2,
                                obj |-> status_response[j]]

====
